---- MODULE Spec2Model ----
(***************************************************************************)
(* Model of the reconciliation pipeline of GTrans-Favorites-to-Anki:       *)
(* run_once (src/main.py) driving the Ledger (src/storage.py), the Source  *)
(* (src/scraper.py), the Enrichment client (src/gemini_client.py) and the  *)
(* Sink (src/anki_client.py).                                              *)
(*                                                                         *)
(* Python strings are modelled as tuples of one-character strings, so that *)
(* concatenation and substring search are computed, not assumed.           *)
(***************************************************************************)
EXTENDS Integers, Sequences, FiniteSets, TLC

\* ------------------------------------------------------------------ bounds
MaxPasses == 2
MaxLimit == 2

\* ------------------------------------------------------------- data model

\* FavoriteItem content pairs that the remote list can hold.  The text of
\* the first occurs inside the text of the second.
Favorites ==
    { [text |-> <<"a">>,      translation |-> <<"b">>],
      [text |-> <<"a", "b">>, translation |-> <<"c">>] }

\* A third content pair, used where a pass needs three candidates; its text
\* occurs in no other entry.
ThirdFavorite == [text |-> <<"c", "c">>, translation |-> <<"b">>]

AllFavorites == Favorites \cup {ThirdFavorite}

Limits == 0..MaxLimit

CharCode(c) ==
    CASE c = "a" -> 1
      [] c = "b" -> 2
      [] c = "c" -> 3
      [] c = "-" -> 4

\* hashlib.sha256(...).hexdigest(): a collision-free digest of the key,
\* computed from its characters (base-5 positional code, no zero digit).
RECURSIVE sha256(_)
sha256(s) == IF s = <<>> THEN 0 ELSE CharCode(Head(s)) + 5 * sha256(Tail(s))

\* f"{text}-{translation}"
PreHashKey(text, translation) == text \o <<"-">> \o translation

\* The ids of the content pairs the remote list can hold, each computed once
\* as fetch_favorites computes it.
ItemIdOf == [f \in AllFavorites |-> sha256(PreHashKey(f.text, f.translation))]

item_id(item) == ItemIdOf[item]

Range(s) == { s[k] : k \in 1..Len(s) }

\* Mutant of ItemIds: no id is collected.
ItemIds_Dropped(s) == {}

ItemIds(s) == { item_id(s[k]) : k \in 1..Len(s) }

Min(a, b) == IF a < b THEN a ELSE b

\* ----------------------------------------------------------------- Ledger

AbsentFile == [kind |-> "absent", data |-> <<>>]

GarbageFile == [kind |-> "garbage", data |-> <<>>]

\* Mutant of sorted: the ids are written in descending order.
RECURSIVE sorted_Descending(_)
sorted_Descending(S) ==
    IF S = {} THEN <<>>
    ELSE LET m == CHOOSE x \in S : \A y \in S : x >= y
         IN  <<m>> \o sorted_Descending(S \ {m})

RECURSIVE sorted(_)
sorted(S) ==
    IF S = {} THEN <<>>
    ELSE LET m == CHOOSE x \in S : \A y \in S : x <= y
         IN  <<m>> \o sorted(S \ {m})

\* load_ids: the empty set unless the file exists, can be read and holds a
\* JSON list.
load_ids(f, readable) ==
    IF f.kind = "absent" THEN {}
    ELSE IF ~readable THEN {}
    ELSE IF f.kind = "json_list" THEN Range(f.data)
    ELSE {}

\* path.exists() at line 10 is outside the try block.  Its stat() can fail
\* with an error other than "not found" (the data directory cannot be
\* searched): depending on the Python version pathlib re-raises it ("error")
\* or answers False, which gives the same result as an unreadable file.
StatOutcomes == {"ok", "error"}

\* load_ids lets an exception out exactly when path.exists() raises.
load_ids_raises(stat) == stat = "error"

\* save_ids: "ok" rewrites the file with the sorted, duplicate-free list;
\* "open_error" is an IOError raised by open() (file untouched);
\* "write_error" is an error raised after open() truncated the file;
\* both are logged and swallowed.  "mkdir_error" is an error raised by
\* path.parent.mkdir() at line 34, before the try block.
SaveOutcomes == {"ok", "open_error", "write_error", "mkdir_error"}

save_ids(f, ids, outcome) ==
    CASE outcome = "ok"          -> [kind |-> "json_list", data |-> sorted(ids)]
      [] outcome = "open_error"  -> f
      [] outcome = "write_error" -> GarbageFile
      [] outcome = "mkdir_error" -> f

\* save_ids lets an exception out exactly when it is raised outside the try
\* block of lines 35-44.
save_ids_raises(outcome) == outcome = "mkdir_error"

\* ----------------------------------------------------------------- Source

\* All duplicate-free sequences of length n over the set S.
RECURSIVE Arrangements(_, _)
Arrangements(S, n) ==
    IF n = 0 \/ S = {} THEN { <<>> }
    ELSE UNION { { <<x>> \o t : t \in Arrangements(S \ {x}, n - 1) } : x \in S }

\* Number of page elements fetch_favorites visits: `if limit and i >= limit`
\* stops the scan, so limit = 0 means no bound.
FetchCount(n, lim) == IF lim # 0 THEN Min(n, lim) ELSE n

\* Mutant of fetch_favorites: the result is not taken from the current page
\* (entries that are no longer in the Source are still returned).
fetch_favorites_Phantom(src, lim) ==
    Arrangements(Favorites, FetchCount(Cardinality(Favorites), lim)) \cup { <<>> }

\* fetch_favorites(limit): the first elements of the page in page order
\* (which is not stable between calls), or [] on a timeout or other error.
fetch_favorites(src, lim) ==
    Arrangements(src, FetchCount(Cardinality(src), lim)) \cup { <<>> }

Contains(hay, needle) ==
    \E k \in 0..(Len(hay) - Len(needle)) :
        SubSeq(hay, k + 1, k + Len(needle)) = needle

\* `favorite_item:has-text("<item.text>")`: an entry matches when the text
\* occurs anywhere inside the entry.
HasText(entry, text) ==
    Contains(entry.text, text) \/ Contains(entry.translation, text)

\* delete_favorite_item(item): the outcomes <<returned bool, Source after>>.
\* The first matching entry is clicked; the call returns True only when the
\* entry is then seen to disappear.
delete_favorite_item(src, item) ==
    { <<FALSE, src>> }
    \cup { <<TRUE, src \ {e}>> : e \in { x \in src : HasText(x, item.text) } }
    \cup { <<FALSE, src \ {e}>> : e \in { x \in src : HasText(x, item.text) } }

\* ------------------------------------------------------- Enrichment / Sink

NoteTypes == {"word", "sentence"}

\* Fields of ProcessedWord and of ProcessedSentence.
WordFields == {"english_word", "example_sentence", "japanese_meaning",
               "example_translation"}

SentenceFields == {"japanese_sentence", "english_sentence"}

\* What generate_content can give back.  status: the API call raised, the
\* text is not JSON, or it is a JSON object.  fence: the text is bare, wrapped
\* in ```json ... ```, or opens with ```json without the closing fence.  type:
\* the "type" member.  data_kind: the "data" member is missing, a string or
\* an object; keys are the members of that object (each a non-empty string).
Responses ==
    {[status |-> st, fence |-> "none", type |-> "missing", data_kind |-> "missing",
      keys |-> {}] : st \in {"api_error", "not_json"}}
    \cup
    {[status |-> "json", fence |-> fe, type |-> ty, data_kind |-> dk, keys |-> {}] :
        fe \in {"none", "json", "open"},
        ty \in {"missing", "word", "sentence", "other"},
        dk \in {"missing", "string"}}
    \cup
    {[status |-> "json", fence |-> fe, type |-> ty, data_kind |-> "dict", keys |-> ks] :
        fe \in {"none", "json", "open"},
        ty \in {"missing", "word", "sentence", "other"},
        ks \in (SUBSET WordFields) \cup (SUBSET SentenceFields)}

None == [type |-> "None"]

\* item_data.get(key, ""): the member's value, or the empty string.
Get(keys, key) == IF key \in keys THEN "v" ELSE ""

\* process_item lines 108-154, from the response on.
process_item(item, r) ==
    IF r.status # "json" THEN None                       \* lines 146-151
    ELSE IF r.fence = "open" THEN None                   \* json.loads fails
    ELSE IF r.type = "missing" \/ r.data_kind = "missing"
              \/ (r.data_kind = "dict" /\ r.keys = {})
         THEN None                                       \* lines 122-124
    ELSE IF r.type = "other" THEN None                   \* lines 142-144
    ELSE IF r.data_kind = "string" THEN None             \* str has no get()
    ELSE IF r.type = "word"
         THEN [item_id |-> item_id(item), type |-> "word",
               data |-> [k \in WordFields |-> Get(r.keys, k)]]
         ELSE [item_id |-> item_id(item), type |-> "sentence",
               data |-> [k \in SentenceFields |-> Get(r.keys, k)]]

\* format_word_note / format_sentence_note: the note carries the enrichment
\* data, which is recorded here by the item it was generated from.
format_note(type, item) ==
    [deck |-> type, model |-> type, fields |-> item, allowDuplicate |-> TRUE]

\* The strings an enrichment field can hold.
FieldValues == {"x", "y"}

\* The values of ProcessedWord and of ProcessedSentence.
WordData == [WordFields -> FieldValues]

SentenceData == [SentenceFields -> FieldValues]

\* config.py lines 29-40: the deck and note type names, by default the same
\* for words and sentences, or set apart by the environment.
Configs ==
    {[ANKI_WORD_DECK_NAME |-> "Default", ANKI_WORD_NOTE_TYPE |-> "Basic",
      ANKI_SENTENCE_DECK_NAME |-> "Default", ANKI_SENTENCE_NOTE_TYPE |-> "Basic"],
     [ANKI_WORD_DECK_NAME |-> "Words", ANKI_WORD_NOTE_TYPE |-> "WordType",
      ANKI_SENTENCE_DECK_NAME |-> "Sentences",
      ANKI_SENTENCE_NOTE_TYPE |-> "SentenceType"]}

\* format_word_note lines 61-73.  The six field names of the note type are
\* Japanese in the source; they are romanised here: tango (word), furezu
\* (phrase), imi (meaning), furezu_no_imi (meaning of the phrase),
\* tango_onsei (word audio), furezu_onsei (phrase audio).
format_word_note(word_data, config) ==
    [deckName |-> config.ANKI_WORD_DECK_NAME,
     modelName |-> config.ANKI_WORD_NOTE_TYPE,
     fields |-> [tango |-> word_data.english_word,
                 furezu |-> word_data.example_sentence,
                 imi |-> word_data.japanese_meaning,
                 furezu_no_imi |-> word_data.example_translation,
                 tango_onsei |-> "",
                 furezu_onsei |-> ""],
     options |-> [allowDuplicate |-> TRUE]]

\* Mutant of format_sentence_note: Front and Back are exchanged.
format_sentence_note_Swapped(sentence_data, config) ==
    [deckName |-> config.ANKI_SENTENCE_DECK_NAME,
     modelName |-> config.ANKI_SENTENCE_NOTE_TYPE,
     fields |-> [Front |-> sentence_data.english_sentence,
                 Back |-> sentence_data.japanese_sentence],
     options |-> [allowDuplicate |-> TRUE]]

\* format_sentence_note lines 80-88.
format_sentence_note(sentence_data, config) ==
    [deckName |-> config.ANKI_SENTENCE_DECK_NAME,
     modelName |-> config.ANKI_SENTENCE_NOTE_TYPE,
     fields |-> [Front |-> sentence_data.japanese_sentence,
                 Back |-> sentence_data.english_sentence],
     options |-> [allowDuplicate |-> TRUE]]

\* The Sink's collection: how many notes it has stored, per item whose
\* enrichment data the note carries.
EmptySink == [f \in AllFavorites |-> 0]

\* addNote accepted by AnkiConnect: the note is stored (duplicates allowed).
store_note(s, note) == [s EXCEPT ![note.fields] = @ + 1]

\* The identifiers AnkiConnect gives to stored notes.
NoteIds == {1, 2}

NoteId(n) == [type |-> "int", value |-> n]

\* What requests.post can meet for one request (anki_client.py lines 40-42):
\* the post times out or cannot connect, the HTTP status is an error, the
\* body is not JSON, or the body is a JSON object with its "error" member set
\* or not and its "result" member null or an identifier.
InvokeReplies ==
    {[kind |-> k, error |-> FALSE, result |-> None] :
        k \in {"timeout", "connection_error", "http_error", "not_json"}}
    \cup
    {[kind |-> "json", error |-> e, result |-> r] :
        e \in BOOLEAN, r \in {None} \cup {NoteId(n) : n \in NoteIds}}

\* _invoke lines 36-48: requests.post, raise_for_status and resp.json() raise;
\* a set "error" member raises RuntimeError; otherwise the "result" member is
\* returned.
invoke(reply) ==
    IF reply.kind # "json" \/ reply.error
    THEN [raised |-> TRUE, result |-> None]
    ELSE [raised |-> FALSE, result |-> reply.result]

\* Mutant of add_note: the exception of _invoke is not caught.
add_note_Uncaught(reply) == invoke(reply)

\* add_note lines 97-106: the result of _invoke, or None when it raised.
add_note(reply) ==
    LET r == invoke(reply)
    IN  IF r.raised THEN [raised |-> FALSE, result |-> None] ELSE r

\* ------------------------------------------------------------------ state

VARIABLES
    pc,                       \* position inside run_once ("idle": it is over; "off": no process)
    passes,                   \* number of passes started
    limit, dry_run, skip_browser,
    processed_item_ids,       \* in-memory known-id set
    all_favorites, stale_favorites, new_favorites,
    i,                        \* current loop index (1-based)
    notes_to_add, newly_processed_ids, successfully_added_items,
    file,                     \* the Ledger file
    source,                   \* entries of the remote favourites list
    sink,                     \* notes accepted by the Sink, with multiplicity
    gemini_api_key,           \* config.GEMINI_API_KEY is set
    \* history of the current pass
    fetchLog, deleteLog, enrichLog, ensureLog, addLog, saveLog,
    unitLog,                  \* calls made on a component in isolation
    source0, file0, sink0,    \* Source, Ledger file and Sink at pass start
    loaded,                   \* what load_ids returned at pass start
    ended, prevEnded,         \* how the current / the previous pass ended
    removed                   \* entries this pass removed from the Source

locals == <<limit, dry_run, skip_browser, processed_item_ids, all_favorites,
            stale_favorites, new_favorites, i, notes_to_add,
            newly_processed_ids, successfully_added_items>>

stores == <<file, source, sink, gemini_api_key>>

history == <<fetchLog, deleteLog, enrichLog, ensureLog, addLog, saveLog,
             unitLog, source0, file0, sink0, loaded, ended, prevEnded, removed>>

vars == <<pc, passes, locals, stores, history>>

\* No pass has run: every local, log and snapshot is empty.
InitPass ==
    /\ passes = 0
    /\ limit = 0
    /\ dry_run = FALSE
    /\ skip_browser = FALSE
    /\ processed_item_ids = {}
    /\ all_favorites = <<>>
    /\ stale_favorites = <<>>
    /\ new_favorites = <<>>
    /\ i = 1
    /\ notes_to_add = <<>>
    /\ newly_processed_ids = {}
    /\ successfully_added_items = <<>>
    /\ sink = EmptySink
    /\ fetchLog = <<>>
    /\ deleteLog = <<>>
    /\ enrichLog = <<>>
    /\ ensureLog = <<>>
    /\ addLog = <<>>
    /\ saveLog = <<>>
    /\ source0 = source
    /\ file0 = file
    /\ sink0 = sink
    /\ loaded = {}
    /\ ended = "none"
    /\ prevEnded = "none"
    /\ removed = {}
    /\ unitLog = <<>>

\* The program starts with no Ledger file, any Source over Favorites, and
\* the API key set or unset.
Init ==
    /\ pc = "off"
    /\ file = AbsentFile
    /\ source \in SUBSET Favorites
    /\ gemini_api_key \in BOOLEAN
    /\ InitPass

\* --------------------------------------------------------------- run_once

\* The pass returns normally.
Return ==
    /\ pc' = "idle"
    /\ ended' = "done"

\* An exception leaves run_once; `ended` keeps the step that raised.
Raise ==
    /\ pc' = "idle"
    /\ ended' = "aborted_at_" \o pc

\* Every Source call opens its own browser session before its try block
\* (scraper.py lines 100-102 and 170-172): a launch failure is not caught.
SessionOutcomes == {"established", "failed"}

\* Mutant of AfterLoad: skip_browser is ignored.
AfterLoad_IgnoreSkip(skip) == pc' = "fetch" /\ ended' = "running"

\* _load_and_filter_favorites lines 25 and 49-54, run_once lines 163-165:
\* with skip_browser nothing is fetched, new_favorites is empty and the pass
\* returns.
AfterLoad(skip) == IF skip THEN Return ELSE pc' = "fetch" /\ ended' = "running"

\* run_once lines 155-161: load the Ledger and enter
\* _load_and_filter_favorites.
StartPass ==
    /\ pc = "off"
    /\ \E lim \in Limits, dry \in BOOLEAN, skip \in BOOLEAN,
          readable \in BOOLEAN, stat \in StatOutcomes :
        /\ limit' = lim
        /\ dry_run' = dry
        /\ skip_browser' = skip
        /\ IF load_ids_raises(stat)
           THEN /\ processed_item_ids' = {}
                /\ loaded' = {}
                /\ pc' = "idle"
                /\ ended' = "aborted_at_load"
           ELSE /\ processed_item_ids' = load_ids(file, readable)
                /\ loaded' = load_ids(file, readable)
                /\ AfterLoad(skip)
    /\ passes' = passes + 1
    /\ prevEnded' = ended
    /\ all_favorites' = <<>>
    /\ stale_favorites' = <<>>
    /\ new_favorites' = <<>>
    /\ i' = 1
    /\ notes_to_add' = <<>>
    /\ newly_processed_ids' = {}
    /\ successfully_added_items' = <<>>
    /\ fetchLog' = <<>>
    /\ deleteLog' = <<>>
    /\ enrichLog' = <<>>
    /\ ensureLog' = <<>>
    /\ addLog' = <<>>
    /\ saveLog' = <<>>
    /\ source0' = source
    /\ file0' = file
    /\ sink0' = sink
    /\ removed' = {}
    /\ UNCHANGED <<stores, unitLog>>

\* One invocation of the program (main lines 207-211), at most MaxPasses times.
RunOnce == passes < MaxPasses /\ StartPass

\* Mutant of IsStale: the partition never finds a stale item.
IsStale_Never(item, known) == FALSE

\* _load_and_filter_favorites line 30: the test that makes an item stale.
IsStale(item, known) == item_id(item) \in known

\* Mutant of IsNew: the filter against the known ids is dropped.
IsNew_Unfiltered(item, known) == TRUE

\* _load_and_filter_favorites line 52: the test that makes an item new.
IsNew(item, known) == item_id(item) \notin known

\* Mutant of FilterNew: the new items are taken from the first fetch of the
\* pass, whatever list is passed.
FilterNew_FromFirst(all) ==
    LET Fresh(item) == IsNew(item, processed_item_ids)
        first == IF fetchLog = <<>> THEN all ELSE fetchLog[1]
        fresh == SelectSeq(first, Fresh)
    IN  /\ new_favorites' = fresh
        /\ IF fresh = <<>> THEN Return ELSE pc' = "gemini" /\ ended' = ended

\* _load_and_filter_favorites line 52 and run_once lines 163-165.
FilterNew(all) ==
    LET Fresh(item) == IsNew(item, processed_item_ids)
        fresh == SelectSeq(all, Fresh)
    IN  /\ new_favorites' = fresh
        /\ IF fresh = <<>> THEN Return ELSE pc' = "gemini" /\ ended' = ended

\* _load_and_filter_favorites lines 27-31: first fetch and partition.
FetchFavorites ==
    /\ pc = "fetch"
    /\ \E session \in SessionOutcomes :
        IF session = "failed"
        THEN /\ Raise
             /\ UNCHANGED <<all_favorites, fetchLog, stale_favorites, new_favorites>>
        ELSE \E r \in fetch_favorites(source, limit) :
            LET Stale(item) == IsStale(item, processed_item_ids)
                stale == SelectSeq(r, Stale)
            IN  /\ all_favorites' = r
                /\ fetchLog' = Append(fetchLog, r)
                /\ stale_favorites' = stale
                /\ IF stale # <<>>
                   THEN pc' = "stale" /\ new_favorites' = new_favorites /\ ended' = ended
                   ELSE FilterNew(r)
    /\ i' = 1
    /\ UNCHANGED <<passes, limit, dry_run, skip_browser, processed_item_ids,
                   notes_to_add, newly_processed_ids, successfully_added_items,
                   stores, deleteLog, enrichLog, ensureLog, addLog, saveLog,
                   unitLog, source0, file0, sink0, loaded, prevEnded, removed>>

\* _load_and_filter_favorites lines 37-44: one iteration of the stale loop.
DeleteStale ==
    /\ pc = "stale"
    /\ LET item == stale_favorites[i]
       IN  \E session \in SessionOutcomes :
            IF session = "failed"
            THEN /\ Raise
                 /\ deleteLog' = Append(deleteLog,
                        [item |-> item, phase |-> "stale", ok |-> FALSE])
                 /\ UNCHANGED <<source, removed>>
            ELSE \E out \in delete_favorite_item(source, item) :
                 /\ source' = out[2]
                 /\ removed' = removed \cup (source \ out[2])
                 /\ deleteLog' = Append(deleteLog,
                        [item |-> item, phase |-> "stale", ok |-> out[1]])
                 /\ pc' = IF i = Len(stale_favorites) THEN "refetch" ELSE "stale"
                 /\ ended' = ended
    /\ i' = i + 1
    /\ UNCHANGED <<passes, limit, dry_run, skip_browser, processed_item_ids,
                   all_favorites, stale_favorites, new_favorites, notes_to_add,
                   newly_processed_ids, successfully_added_items,
                   file, sink, gemini_api_key,
                   fetchLog, enrichLog, ensureLog, addLog, saveLog,
                   unitLog, source0, file0, sink0, loaded, prevEnded>>

\* _load_and_filter_favorites lines 46-52: fetch again after the cleanup.
Refetch ==
    /\ pc = "refetch"
    /\ \E session \in SessionOutcomes :
        IF session = "failed"
        THEN /\ Raise
             /\ UNCHANGED <<all_favorites, fetchLog, new_favorites>>
        ELSE \E r \in fetch_favorites(source, limit) :
             /\ all_favorites' = r
             /\ fetchLog' = Append(fetchLog, r)
             /\ FilterNew(r)
    /\ i' = 1
    /\ UNCHANGED <<passes, limit, dry_run, skip_browser, processed_item_ids,
                   stale_favorites, notes_to_add, newly_processed_ids,
                   successfully_added_items, stores,
                   deleteLog, enrichLog, ensureLog, addLog, saveLog,
                   unitLog, source0, file0, sink0, loaded, prevEnded, removed>>

\* _process_new_favorites lines 61-63: GeminiProcessor() raises RuntimeError
\* when the API key is not configured.
NewGeminiProcessor ==
    /\ pc = "gemini"
    /\ IF gemini_api_key THEN pc' = "enrich" /\ ended' = ended ELSE Raise
    /\ i' = 1
    /\ notes_to_add' = <<>>
    /\ newly_processed_ids' = {}
    /\ UNCHANGED <<passes, limit, dry_run, skip_browser, processed_item_ids,
                   all_favorites, stale_favorites, new_favorites,
                   successfully_added_items, stores,
                   fetchLog, deleteLog, enrichLog, ensureLog, addLog, saveLog,
                   unitLog, source0, file0, sink0, loaded, prevEnded, removed>>

\* The enrichment loop stops at the end of new_favorites, or, in a dry run
\* only, at index `limit` (line 67, 0-based index i - 1).
EnrichLoopOver ==
    \/ i > Len(new_favorites)
    \/ (dry_run /\ i - 1 >= limit)

\* _process_new_favorites lines 66-86: one iteration; process_item returns
\* None, a word or a sentence.
ProcessItem ==
    /\ pc = "enrich"
    /\ ~EnrichLoopOver
    /\ LET item == new_favorites[i]
       IN  \E res \in NoteTypes \cup {"None"} :
            /\ enrichLog' = Append(enrichLog, [item |-> item, result |-> res])
            /\ IF res = "None"
               THEN UNCHANGED <<notes_to_add, newly_processed_ids>>
               ELSE /\ notes_to_add' = Append(notes_to_add, format_note(res, item))
                    /\ newly_processed_ids' = newly_processed_ids \cup {item_id(item)}
    /\ i' = i + 1
    /\ UNCHANGED <<pc, passes, limit, dry_run, skip_browser, processed_item_ids,
                   all_favorites, stale_favorites, new_favorites,
                   successfully_added_items, stores,
                   fetchLog, deleteLog, ensureLog, addLog, saveLog,
                   unitLog, source0, file0, sink0, loaded, ended, prevEnded, removed>>

\* Mutant of NothingPrepared: the empty enriched set is not detected.
NothingPrepared_Never(notes) == FALSE

\* run_once line 169: `if not notes_to_add`.
NothingPrepared(notes) == notes = <<>>

\* run_once lines 169-187: nothing prepared, or dry run: return; otherwise
\* go on to _add_notes_to_anki.
AfterProcess ==
    /\ pc = "enrich"
    /\ EnrichLoopOver
    /\ IF NothingPrepared(notes_to_add) \/ dry_run
       THEN Return
       ELSE pc' = "ensure" /\ ended' = ended
    /\ i' = 1
    /\ UNCHANGED <<passes, limit, dry_run, skip_browser, processed_item_ids,
                   all_favorites, stale_favorites, new_favorites, notes_to_add,
                   newly_processed_ids, successfully_added_items, stores,
                   fetchLog, deleteLog, enrichLog, ensureLog, addLog, saveLog,
                   unitLog, source0, file0, sink0, loaded, prevEnded, removed>>

\* _add_notes_to_anki lines 98-99: ensure_deck_and_model for the word deck,
\* then for the sentence deck; an AnkiConnect failure raises out of the pass.
EnsureDeckAndModel ==
    /\ pc = "ensure"
    /\ ensureLog' = Append(ensureLog, IF i = 1 THEN "word" ELSE "sentence")
    /\ \E ok \in BOOLEAN :
        IF ~ok THEN Raise /\ i' = i
        ELSE /\ ended' = ended
             /\ IF i = 1 THEN pc' = "ensure" /\ i' = 2
                         ELSE pc' = "add" /\ i' = 1
    /\ successfully_added_items' = <<>>
    /\ UNCHANGED <<passes, limit, dry_run, skip_browser, processed_item_ids,
                   all_favorites, stale_favorites, new_favorites, notes_to_add,
                   newly_processed_ids, stores,
                   fetchLog, deleteLog, enrichLog, addLog, saveLog,
                   unitLog, source0, file0, sink0, loaded, prevEnded, removed>>

\* The FavoriteItem that _add_notes_to_anki line 105 pairs with the k-th note.
original_favorite_item(k) == new_favorites[k]

\* _add_notes_to_anki lines 104-116: one iteration; add_note returns an id
\* (the Sink stored the note) or None; were it to raise, the exception would
\* leave the loop and the pass.
AddNote ==
    /\ pc = "add"
    /\ LET note == notes_to_add[i]
           orig == original_favorite_item(i)
       IN  \E reply \in InvokeReplies :
            LET note_id == add_note(reply)
                ok == note_id.result # None             \* line 108
            IN  IF note_id.raised
                THEN /\ Raise
                     /\ UNCHANGED <<addLog, sink, successfully_added_items, i>>
                ELSE /\ addLog' = Append(addLog, [note |-> note, item |-> orig, ok |-> ok])
                     /\ sink' = IF ok THEN store_note(sink, note) ELSE sink
                     /\ successfully_added_items' =
                            IF ok THEN Append(successfully_added_items, orig)
                                  ELSE successfully_added_items
                     /\ i' = i + 1
                     /\ pc' = IF i = Len(notes_to_add) THEN "save" ELSE "add"
                     /\ ended' = ended
    /\ UNCHANGED <<passes, limit, dry_run, skip_browser, processed_item_ids,
                   all_favorites, stale_favorites, new_favorites, notes_to_add,
                   newly_processed_ids, file, source, gemini_api_key,
                   fetchLog, deleteLog, enrichLog, ensureLog, saveLog,
                   unitLog, source0, file0, sink0, loaded, prevEnded, removed>>

\* Mutant of MergeIds: the ids of the added items are not merged.
MergeIds_Skipped(ids, items) == ids

\* _add_notes_to_anki lines 124-125: the id of every added item is put into
\* the in-memory id set.
MergeIds(ids, items) == ids \cup ItemIds(items)

\* _add_notes_to_anki lines 124-128 and _delete_processed_favorites line 141:
\* merge the ids of the added items, save once, then start the delete loop
\* (which has nothing to do when no note was added).
SaveIds ==
    /\ pc = "save"
    /\ LET merged == MergeIds(processed_item_ids, successfully_added_items)
       IN  /\ processed_item_ids' = merged
           /\ \E outcome \in SaveOutcomes :
                /\ file' = save_ids(file, merged, outcome)
                /\ saveLog' = Append(saveLog, [ids |-> merged, outcome |-> outcome,
                                               raised |-> save_ids_raises(outcome)])
                /\ IF save_ids_raises(outcome) THEN Raise
                   ELSE IF successfully_added_items = <<>> THEN Return
                   ELSE pc' = "delete" /\ ended' = ended
    /\ i' = 1
    /\ UNCHANGED <<passes, limit, dry_run, skip_browser,
                   all_favorites, stale_favorites, new_favorites, notes_to_add,
                   newly_processed_ids, successfully_added_items,
                   source, sink, gemini_api_key,
                   fetchLog, deleteLog, enrichLog, ensureLog, addLog,
                   unitLog, source0, file0, sink0, loaded, prevEnded, removed>>

\* _delete_processed_favorites lines 141-147: one iteration.
DeleteProcessed ==
    /\ pc = "delete"
    /\ LET item == successfully_added_items[i]
       IN  \E session \in SessionOutcomes :
            IF session = "failed"
            THEN /\ Raise
                 /\ deleteLog' = Append(deleteLog,
                        [item |-> item, phase |-> "committed", ok |-> FALSE])
                 /\ UNCHANGED <<source, removed>>
            ELSE \E out \in delete_favorite_item(source, item) :
                 /\ source' = out[2]
                 /\ removed' = removed \cup (source \ out[2])
                 /\ deleteLog' = Append(deleteLog,
                        [item |-> item, phase |-> "committed", ok |-> out[1]])
                 /\ IF i = Len(successfully_added_items)
                    THEN Return
                    ELSE pc' = "delete" /\ ended' = ended
    /\ i' = i + 1
    /\ UNCHANGED <<passes, limit, dry_run, skip_browser, processed_item_ids,
                   all_favorites, stale_favorites, new_favorites, notes_to_add,
                   newly_processed_ids, successfully_added_items,
                   file, sink, gemini_api_key,
                   fetchLog, enrichLog, ensureLog, addLog, saveLog,
                   unitLog, source0, file0, sink0, loaded, prevEnded>>

\* The process is terminated in the middle of a pass: nothing more is done
\* and the in-memory state is gone; only the Ledger file, the Source and the
\* Sink survive (the history of the pass is closed, keeping only whether the
\* pass was stopped after a successful save_ids).  The next invocation starts
\* from RunOnce.
ProcessKilled(after) ==
    /\ pc' = "idle"
    /\ file' = after
    /\ ended' = IF pc = "delete" /\ saveLog[1].outcome = "ok"
                THEN "killed_after_save" ELSE "killed"
    /\ limit' = 0
    /\ dry_run' = FALSE
    /\ skip_browser' = FALSE
    /\ processed_item_ids' = {}
    /\ all_favorites' = <<>>
    /\ stale_favorites' = <<>>
    /\ new_favorites' = <<>>
    /\ i' = 1
    /\ notes_to_add' = <<>>
    /\ newly_processed_ids' = {}
    /\ successfully_added_items' = <<>>
    /\ fetchLog' = <<>>
    /\ deleteLog' = <<>>
    /\ enrichLog' = <<>>
    /\ ensureLog' = <<>>
    /\ addLog' = <<>>
    /\ saveLog' = <<>>
    /\ removed' = {}
    /\ loaded' = {}
    /\ UNCHANGED <<passes, source, sink, gemini_api_key, unitLog, source0, file0,
                   sink0, prevEnded>>

\* The process is terminated between two steps of a pass.
Terminate == pc \notin {"idle", "off"} /\ ProcessKilled(file)

\* The process is terminated inside save_ids, after open(path, "w") has
\* truncated the file (storage.py line 36) and before json.dump has written
\* the whole list: what is left is not a JSON document.
TerminateInSave == pc = "save" /\ ProcessKilled(GarbageFile)

\* main lines 213-216: run_once is over (returned, raised, or the process was
\* terminated) and the process is gone with its memory; the Ledger file, the
\* Source and the Sink remain for the next invocation.
Exit ==
    /\ pc = "idle"
    /\ pc' = "off"
    /\ limit' = 0
    /\ dry_run' = FALSE
    /\ skip_browser' = FALSE
    /\ processed_item_ids' = {}
    /\ all_favorites' = <<>>
    /\ stale_favorites' = <<>>
    /\ new_favorites' = <<>>
    /\ i' = 1
    /\ notes_to_add' = <<>>
    /\ newly_processed_ids' = {}
    /\ successfully_added_items' = <<>>
    /\ fetchLog' = <<>>
    /\ deleteLog' = <<>>
    /\ enrichLog' = <<>>
    /\ ensureLog' = <<>>
    /\ addLog' = <<>>
    /\ saveLog' = <<>>
    /\ removed' = {}
    /\ loaded' = {}
    /\ source0' = source
    /\ file0' = file
    /\ sink0' = sink
    /\ UNCHANGED <<passes, stores, unitLog, ended, prevEnded>>

Next ==
    \/ RunOnce
    \/ FetchFavorites
    \/ DeleteStale
    \/ Refetch
    \/ NewGeminiProcessor
    \/ ProcessItem
    \/ AfterProcess
    \/ EnsureDeckAndModel
    \/ AddNote
    \/ SaveIds
    \/ DeleteProcessed
    \/ Terminate
    \/ TerminateInSave
    \/ Exit

Spec == Init /\ [][Next]_vars

\* --------------------------------------------- a pass over three items

MaxWidePasses == 1

\* The Source holds the three favourites; the Ledger file is absent or holds
\* the id of the third one (which is then stale).
InitWide ==
    /\ pc = "off"
    /\ file \in {AbsentFile,
                 [kind |-> "json_list", data |-> <<item_id(ThirdFavorite)>>]}
    /\ source = AllFavorites
    /\ gemini_api_key = TRUE
    /\ InitPass

RunOnceWide == passes < MaxWidePasses /\ StartPass

NextWide ==
    \/ RunOnceWide
    \/ FetchFavorites
    \/ DeleteStale
    \/ Refetch
    \/ NewGeminiProcessor
    \/ ProcessItem
    \/ AfterProcess
    \/ EnsureDeckAndModel
    \/ AddNote
    \/ SaveIds
    \/ DeleteProcessed
    \/ Terminate
    \/ TerminateInSave
    \/ Exit

SpecWide == InitWide /\ [][NextWide]_vars

\* ------------------------------------------- components in isolation

MaxUnitCalls == 2

MaxListLen == 2

UnitIds == {item_id(f) : f \in Favorites}

RECURSIVE SeqsUpTo(_, _)
SeqsUpTo(S, n) ==
    IF n = 0 THEN {<<>>}
    ELSE LET shorter == SeqsUpTo(S, n - 1)
         IN  shorter \cup {Append(q, x) : q \in shorter, x \in S}

\* A file holding valid JSON that is not a list.
JsonNotListFile == [kind |-> "json_other", data |-> <<>>]

\* The files load_ids can meet: absent, not JSON, JSON but not a list, and
\* JSON lists in any order, with or without duplicates.
UnitFiles ==
    {AbsentFile, GarbageFile, JsonNotListFile}
        \cup {[kind |-> "json_list", data |-> q] : q \in SeqsUpTo(UnitIds, MaxListLen)}

\* An element of the favourites page whose text is blank after strip().
BlankEntry == [text |-> <<>>, translation |-> <<"b">>]

PageEntries == Favorites \cup {BlankEntry}

\* Two elements whose text or translation holds the character that joins
\* them in the hashed key.
DashEntries ==
    { [text |-> <<"a", "-", "b">>, translation |-> <<"c">>],
      [text |-> <<"a">>,           translation |-> <<"b", "-", "c">>] }

\* The pages the scraper is run on.
Pages == (SUBSET PageEntries) \cup {DashEntries}

\* FavoriteItem(text, translation, item_id) built at scraper.py lines 136-137.
FavoriteItem(text, translation) ==
    [text |-> text, translation |-> translation,
     item_id |-> sha256(PreHashKey(text, translation))]

\* Mutant of ScrapeItems: the element's index is hashed into the id.
ScrapeItems_Indexed(pg, lim) ==
    LET n == FetchCount(Len(pg), lim)
        Kept(k) == pg[k].text # <<>> /\ pg[k].translation # <<>>
        idx == SelectSeq([k \in 1..n |-> k], Kept)
    IN  [j \in 1..Len(idx) |->
            [text |-> pg[idx[j]].text, translation |-> pg[idx[j]].translation,
             item_id |-> sha256(PreHashKey(pg[idx[j]].text, pg[idx[j]].translation)
                                \o <<(<<"a", "b", "c", "-">>)[idx[j]]>>)]]

\* fetch_favorites lines 123-143 on a page that loaded: the first elements
\* (all of them when limit is 0), those with a blank text or translation
\* skipped, each turned into a FavoriteItem.
ScrapeItems(pg, lim) ==
    LET n == FetchCount(Len(pg), lim)
        Kept(k) == pg[k].text # <<>> /\ pg[k].translation # <<>>
        idx == SelectSeq([k \in 1..n |-> k], Kept)
    IN  [j \in 1..Len(idx) |-> FavoriteItem(pg[idx[j]].text, pg[idx[j]].translation)]

\* One component is exercised: the Ledger from any file, the Enrichment, the
\* Source scraper on any page, the Sink's add_note, or the flashcard
\* formatting.
InitUnits ==
    /\ \/ pc = "ledger" /\ file \in UnitFiles /\ source = {}
       \/ pc = "enrichment" /\ file = AbsentFile /\ source = {}
       \/ pc = "scraper" /\ file = AbsentFile /\ source \in Pages
       \/ pc \in {"sink", "flashcard"} /\ file = AbsentFile /\ source = {}
    /\ gemini_api_key = TRUE
    /\ InitPass

\* One call fetch_favorites(limit) on a page that loaded, its elements in
\* any order.
UnitFetch ==
    /\ pc = "scraper"
    /\ Len(unitLog) < MaxUnitCalls
    /\ \E lim \in Limits, pg \in Arrangements(source, Cardinality(source)) :
        unitLog' = Append(unitLog,
            [op |-> "fetch_favorites", limit |-> lim, page |-> pg,
             items |-> ScrapeItems(pg, lim)])
    /\ UNCHANGED <<pc, passes, locals, stores, fetchLog, deleteLog, enrichLog,
                   ensureLog, addLog, saveLog, source0, file0, sink0, loaded,
                   ended, prevEnded, removed>>

\* One call load_ids(path).
UnitLoad ==
    /\ pc = "ledger"
    /\ Len(unitLog) < MaxUnitCalls
    /\ \E readable \in BOOLEAN, stat \in StatOutcomes :
        unitLog' = Append(unitLog,
            [op |-> "load_ids", file |-> file, readable |-> readable, stat |-> stat,
             raised |-> load_ids_raises(stat),
             result |-> IF load_ids_raises(stat) THEN {} ELSE load_ids(file, readable)])
    /\ UNCHANGED <<pc, passes, locals, stores, fetchLog, deleteLog, enrichLog,
                   ensureLog, addLog, saveLog, source0, file0, sink0, loaded,
                   ended, prevEnded, removed>>

\* One call save_ids(path, ids).
UnitSave ==
    /\ pc = "ledger"
    /\ Len(unitLog) < MaxUnitCalls
    /\ \E ids \in SUBSET UnitIds, outcome \in SaveOutcomes :
        /\ file' = save_ids(file, ids, outcome)
        /\ unitLog' = Append(unitLog,
              [op |-> "save_ids", ids |-> ids, outcome |-> outcome,
               raised |-> save_ids_raises(outcome),
               file |-> save_ids(file, ids, outcome)])
    /\ UNCHANGED <<pc, passes, locals, source, sink, gemini_api_key, fetchLog,
                   deleteLog, enrichLog, ensureLog, addLog, saveLog, source0,
                   file0, sink0, loaded, ended, prevEnded, removed>>

\* One call process_item(item).
UnitDecode ==
    /\ pc = "enrichment"
    /\ unitLog = <<>>
    /\ \E item \in Favorites, r \in Responses :
        unitLog' = Append(unitLog,
            [op |-> "process_item", item |-> item, response |-> r,
             result |-> process_item(item, r)])
    /\ UNCHANGED <<pc, passes, locals, stores, fetchLog, deleteLog, enrichLog,
                   ensureLog, addLog, saveLog, source0, file0, sink0, loaded,
                   ended, prevEnded, removed>>

\* One call delete_favorite_item(item) whose browser session was set up.
UnitDelete ==
    /\ pc = "scraper"
    /\ Len(unitLog) < MaxUnitCalls
    /\ \E item \in Favorites : \E out \in delete_favorite_item(source, item) :
        /\ source' = out[2]
        /\ unitLog' = Append(unitLog,
              [op |-> "delete_favorite_item", item |-> item, before |-> source,
               after |-> out[2], result |-> out[1]])
    /\ UNCHANGED <<pc, passes, locals, file, sink, gemini_api_key, fetchLog,
                   deleteLog, enrichLog, ensureLog, addLog, saveLog, source0,
                   file0, sink0, loaded, ended, prevEnded, removed>>

\* One call add_note(note), as the loop of _add_notes_to_anki makes them one
\* after the other: a call that raised would end the sequence.
UnitAddNote ==
    /\ pc = "sink"
    /\ Len(unitLog) < MaxUnitCalls
    /\ \A k \in 1..Len(unitLog) : ~unitLog[k].raised
    /\ \E reply \in InvokeReplies :
        unitLog' = Append(unitLog,
            [op |-> "add_note", reply |-> reply,
             raised |-> add_note(reply).raised,
             result |-> add_note(reply).result])
    /\ UNCHANGED <<pc, passes, locals, stores, fetchLog, deleteLog, enrichLog,
                   ensureLog, addLog, saveLog, source0, file0, sink0, loaded,
                   ended, prevEnded, removed>>

\* The configuration is read once, when config.py is imported: every call
\* of one run sees the same names.
ConfigsNow == IF unitLog = <<>> THEN Configs ELSE {unitLog[1].config}

\* _process_new_favorites lines 79-83: one ProcessedItem turned into a note
\* by the formatter of its type.
UnitFormat ==
    /\ pc = "flashcard"
    /\ Len(unitLog) < MaxUnitCalls
    /\ \E config \in ConfigsNow :
        \/ \E word_data \in WordData :
            unitLog' = Append(unitLog,
                [op |-> "format_note", type |-> "word", data |-> word_data,
                 config |-> config, note |-> format_word_note(word_data, config)])
        \/ \E sentence_data \in SentenceData :
            unitLog' = Append(unitLog,
                [op |-> "format_note", type |-> "sentence", data |-> sentence_data,
                 config |-> config,
                 note |-> format_sentence_note(sentence_data, config)])
    /\ UNCHANGED <<pc, passes, locals, stores, fetchLog, deleteLog, enrichLog,
                   ensureLog, addLog, saveLog, source0, file0, sink0, loaded,
                   ended, prevEnded, removed>>

NextUnits ==
    \/ UnitLoad
    \/ UnitSave
    \/ UnitDecode
    \/ UnitFetch
    \/ UnitDelete
    \/ UnitAddNote
    \/ UnitFormat

SpecUnits == InitUnits /\ [][NextUnits]_vars

\* ------------------------------------------------------------- properties

\* The ids held by the persisted Ledger (what a successful read returns).
LedgerIds(f) == load_ids(f, TRUE)

\* The Sink has accepted a flashcard built from the enrichment of item f.
Accepted(f) == sink[f] > 0

Killed == ended \in {"killed", "killed_after_save"}

PassOver == pc = "idle" /\ passes > 0 /\ ~Killed

\* The stale loop of this pass ran to its end (it was not cut by a session
\* failure of the first fetch or of a stale delete).
StaleLoopOver ==
    /\ pc \notin {"fetch", "stale"}
    /\ ended \notin {"aborted_at_fetch", "aborted_at_stale"}

DeleteCalled(item, phase) ==
    \E k \in 1..Len(deleteLog) :
        deleteLog[k].item = item /\ deleteLog[k].phase = phase

Enriched(item) == \E k \in 1..Len(enrichLog) : enrichLog[k].item = item

\* item was handed to add_note's loop, as the note's content or as the
\* FavoriteItem paired with a note.
Written(item) ==
    \E k \in 1..Len(addLog) :
        addLog[k].note.fields = item \/ addLog[k].item = item

\* C1 (only-if half of the claim): every id in the persisted Ledger is the id
\* of an item for which the Sink accepted the flashcard built from that item.
C1_LedgerOnlyIfAccepted ==
    \A f \in Favorites :
        item_id(f) \in LedgerIds(file) =>
            \E g \in Favorites : item_id(g) = item_id(f) /\ Accepted(g)

\* C2: an item is removed from the Source by the delete-committed step only
\* after its id is in the Ledger and save_ids has actually persisted the
\* Ledger in this pass (a failed save does not count).
C2_DeleteOnlyAfterPersist ==
    \A k \in 1..Len(deleteLog) :
        (deleteLog[k].phase = "committed" /\ deleteLog[k].ok) =>
            /\ saveLog # <<>>
            /\ saveLog[1].outcome = "ok"
            /\ item_id(deleteLog[k].item) \in LedgerIds(file)

\* C3: a dry-run pass makes no save_ids, delete_favorite_item,
\* ensure_deck_and_model or add_note call and leaves the Ledger, the Source
\* and the Sink as they were at the start of the pass.
C3_DryRunPurity ==
    dry_run =>
        /\ saveLog = <<>>
        /\ deleteLog = <<>>
        /\ ensureLog = <<>>
        /\ addLog = <<>>
        /\ file = file0
        /\ source = source0
        /\ sink = sink0

C5_NoItemLost ==
    \A k \in 1..Len(deleteLog) :
        deleteLog[k].ok => Accepted(deleteLog[k].item)

\* C6 precondition: at pass start the Source held no item whose id is missing
\* from the Ledger and no item whose id is in it.
FullySynced ==
    /\ ~\E f \in source0 : item_id(f) \notin LedgerIds(file0)
    /\ ~\E f \in source0 : item_id(f) \in LedgerIds(file0)

\* C6: a pass started on a fully synced Source makes no enrichment call, no
\* Sink write, no Source deletion and no ledger save, and leaves the Ledger
\* file unchanged.
C6_Idempotence ==
    (passes > 0 /\ FullySynced) =>
        /\ enrichLog = <<>>
        /\ addLog = <<>>
        /\ ensureLog = <<>>
        /\ deleteLog = <<>>
        /\ saveLog = <<>>
        /\ file = file0
        /\ source = source0

\* C6 witness: a second pass that fetched from a Source emptied by the
\* previous pass, with a Ledger that holds ids, has returned.
C6_Witness ==
    /\ passes = 2
    /\ PassOver
    /\ ended = "done"
    /\ FullySynced
    /\ LedgerIds(file0) # {}
    /\ fetchLog # <<>>

\* The items left in the Source at the start of this pass whose id the
\* stopped previous pass had saved.
SavedLeftovers == { f \in source0 : item_id(f) \in LedgerIds(file0) }

\* C7 (as claimed, for a next pass that is not skip-remote and whose load_ids
\* returned the saved Ledger): after a pass that stopped between a successful
\* save and the end of the delete-committed step, the next pass ends with
\* every leftover item whose id was saved classified as stale, gone from the
\* Source, not enriched and not written.
C7_LeftoversRemoved ==
    (/\ prevEnded = "killed_after_save"
     /\ PassOver
     /\ ended = "done"
     /\ ~skip_browser
     /\ loaded = LedgerIds(file0)
     /\ fetchLog # <<>>
     /\ SavedLeftovers \subseteq Range(fetchLog[1]))
    =>  \A f \in SavedLeftovers :
            /\ f \in Range(stale_favorites)
            /\ f \notin source
            /\ ~Enriched(f)
            /\ ~Written(f)

\* C7 (amended): after such a stop, every leftover item whose saved id is in
\* the set load_ids returned is neither enriched nor written in the next
\* pass; if the first fetch of that pass returns it, it is classified as
\* stale and, once the stale loop is over, has got a Source delete call.
C7_LeftoversStale ==
    prevEnded = "killed_after_save" =>
        \A f \in SavedLeftovers :
            item_id(f) \in loaded =>
                /\ ~Enriched(f)
                /\ ~Written(f)
                /\ (fetchLog # <<>> /\ f \in Range(fetchLog[1])) =>
                      /\ f \in Range(stale_favorites)
                      /\ StaleLoopOver => DeleteCalled(f, "stale")

\* C7 witness: the pass after such a stop has fetched a leftover item, called
\* delete on it without success, and gone on to enrich another item.
C7_Witness ==
    /\ prevEnded = "killed_after_save"
    /\ PassOver
    /\ fetchLog # <<>>
    /\ \E f \in SavedLeftovers :
        /\ item_id(f) \in loaded
        /\ f \in Range(fetchLog[1])
        /\ \E k \in 1..Len(deleteLog) :
              deleteLog[k].item = f /\ ~deleteLog[k].ok
        /\ f \in source
    /\ enrichLog # <<>>

\* C8: the persisted Ledger is append-only: every id it held at the start of
\* a pass is still in it at any later point of the pass.
C8_LedgerAppendOnly ==
    passes > 0 => LedgerIds(file0) \subseteq LedgerIds(file)

\* C9: in every pass, for every limit, at most `limit` items are enriched and
\* at most `limit` flashcards are written.
C9_LimitCap ==
    (passes > 0 /\ ~Killed) =>
        /\ Len(enrichLog) <= limit
        /\ Len(addLog) <= limit

\* C10: a candidate for which process_item returned None gets no Sink write,
\* its id is not added to the known ids or to the Ledger, and no Source
\* delete is called on it.
C10_NoneIsSkipped ==
    \A k \in 1..Len(enrichLog) :
        enrichLog[k].result = "None" =>
            LET f == enrichLog[k].item
            IN  /\ \A n \in 1..Len(addLog) : addLog[n].note.fields # f
                /\ item_id(f) \notin processed_item_ids
                /\ item_id(f) \notin LedgerIds(file)
                /\ ~DeleteCalled(f, "committed")

\* The pass took the happy path: nothing was stale at its start, every new
\* item was enriched, written, saved and deleted without a failure.
HappyPass ==
    /\ PassOver /\ ended = "done"
    /\ ~dry_run /\ ~skip_browser
    /\ fetchLog # <<>> /\ stale_favorites = <<>>
    /\ new_favorites # <<>>
    /\ Len(enrichLog) = Len(new_favorites)
    /\ \A k \in 1..Len(enrichLog) : enrichLog[k].result # "None"
    /\ Len(addLog) = Len(new_favorites)
    /\ \A k \in 1..Len(addLog) : addLog[k].ok
    /\ saveLog # <<>>
    /\ \A k \in 1..Len(saveLog) : saveLog[k].outcome = "ok"
    /\ Len(deleteLog) = Len(new_favorites)
    /\ \A k \in 1..Len(deleteLog) : deleteLog[k].ok

\* C12: after a happy pass the persisted Ledger is the loaded Ledger plus
\* exactly the ids of the processed items, written by a single save_ids
\* call, and every processed item got exactly one delete_favorite_item call
\* (a committed delete that returned True).
C12_HappyPath ==
    HappyPass =>
        /\ LedgerIds(file) = loaded \cup {item_id(f) : f \in Range(new_favorites)}
        /\ Len(saveLog) = 1
        /\ saveLog[1].ids = loaded \cup {item_id(f) : f \in Range(new_favorites)}
        /\ \A f \in Range(new_favorites) :
               /\ Cardinality({k \in 1..Len(deleteLog) : deleteLog[k].item = f}) = 1
               /\ \A k \in 1..Len(deleteLog) :
                      deleteLog[k].item = f =>
                          deleteLog[k].phase = "committed" /\ deleteLog[k].ok

\* A happy pass that started from a non-empty Ledger and processed an item.
C12_Witness ==
    /\ HappyPass
    /\ loaded # {}
    /\ LedgerIds(file) # loaded

\* C13: a pass run with skip_browser ends right after load_ids: no
\* fetch_favorites, delete_favorite_item, process_item, ensure_deck_and_model,
\* add_note or save_ids call is made, and Ledger, Source and Sink are as they
\* were, whatever the Ledger holds and whatever dry_run is.
C13_SkipBrowserDoesNothing ==
    (skip_browser /\ passes > 0) =>
        /\ pc = "idle"
        /\ fetchLog = <<>> /\ deleteLog = <<>> /\ enrichLog = <<>>
        /\ ensureLog = <<>> /\ addLog = <<>> /\ saveLog = <<>>
        /\ file = file0 /\ source = source0 /\ sink = sink0

\* A skip_browser pass, not a dry run, over a non-empty Source and a
\* non-empty Ledger.
C13_Witness ==
    /\ skip_browser /\ ~dry_run /\ passes > 0
    /\ ended = "done"
    /\ source0 # {}
    /\ loaded # {}

\* The pass was cut short by an exception that left run_once.
Aborted ==
    pc = "idle" /\ ended \notin {"none", "running", "done", "killed", "killed_after_save"}

\* C17: a pass is aborted only by a browser-session failure (in a Source
\* call) or by the configuration failure of GeminiProcessor(); no other step
\* aborts it.
C17_AbortOnlySessionOrConfig ==
    Aborted =>
        ended \in {"aborted_at_fetch", "aborted_at_stale", "aborted_at_refetch",
                   "aborted_at_delete", "aborted_at_gemini"}

\* item f is imported: its id is in the persisted Ledger, the Sink holds a
\* flashcard built from it and it is gone from the Source.
Imported(f) ==
    /\ item_id(f) \in LedgerIds(file)
    /\ Accepted(f)
    /\ f \notin source

\* C18 (safety half of the claim): no step of any pass undoes the imported
\* status of an item.
C18_ImportedIsStable ==
    [][\A f \in Favorites : Imported(f) => Imported(f)']_vars

\* C20: when the missing GEMINI_API_KEY aborts the pass, no fetch_favorites,
\* delete_favorite_item, ensure_deck_and_model, add_note or save_ids call has
\* been made.
C20_KeyCheckedBeforePass ==
    ended = "aborted_at_gemini" =>
        /\ fetchLog = <<>> /\ deleteLog = <<>>
        /\ ensureLog = <<>> /\ addLog = <<>> /\ saveLog = <<>>

\* C14: load_ids never lets an exception out, returns the empty set for an
\* absent, unreadable, non-JSON or non-list file, and otherwise returns
\* exactly the set of the stored ids.
C14_LoadNeverFails ==
    \A k \in 1..Len(unitLog) :
        unitLog[k].op = "load_ids" =>
            /\ ~unitLog[k].raised
            /\ unitLog[k].result =
                   IF unitLog[k].file.kind = "json_list" /\ unitLog[k].readable
                   THEN Range(unitLog[k].file.data)
                   ELSE {}

\* C15: save_ids never lets an exception out, whichever step of it fails.
C15_SaveNeverRaises ==
    /\ \A k \in 1..Len(saveLog) : ~saveLog[k].raised
    /\ \A k \in 1..Len(unitLog) : unitLog[k].op = "save_ids" => ~unitLog[k].raised
    /\ ended # "aborted_at_save"

\* The stored array q is sorted and has no duplicate.
StrictlyIncreasing(q) == \A a, b \in 1..Len(q) : a < b => q[a] < q[b]

OkSave(k) == unitLog[k].op = "save_ids" /\ unitLog[k].outcome = "ok"

\* C16: a successful save_ids(ids) stores a sorted, duplicate-free JSON list
\* of exactly ids; a load_ids that follows it and can read the file returns
\* exactly ids; two successful saves of the same set store the same content.
C16_RoundTrip ==
    \A k \in 1..Len(unitLog) :
        OkSave(k) =>
            /\ unitLog[k].file.kind = "json_list"
            /\ StrictlyIncreasing(unitLog[k].file.data)
            /\ Range(unitLog[k].file.data) = unitLog[k].ids
            /\ Len(unitLog[k].file.data) = Cardinality(unitLog[k].ids)
            /\ (k < Len(unitLog) /\ unitLog[k + 1].op = "load_ids"
                    /\ unitLog[k + 1].readable /\ ~unitLog[k + 1].raised)
                   => unitLog[k + 1].result = unitLog[k].ids
            /\ \A j \in 1..Len(unitLog) :
                   (OkSave(j) /\ unitLog[j].ids = unitLog[k].ids)
                       => unitLog[j].file = unitLog[k].file

\* A set of two ids was saved successfully and then loaded back.
C16_Witness ==
    /\ Len(unitLog) >= 2
    /\ OkSave(1)
    /\ Cardinality(unitLog[1].ids) = 2
    /\ unitLog[2].op = "load_ids"
    /\ unitLog[2].readable /\ ~unitLog[2].raised
    /\ unitLog[2].result = unitLog[1].ids

\* The response is unparseable or lacks the type, the data or a required
\* field of its variant.
Malformed(r) ==
    \/ r.status # "json"
    \/ r.fence = "open"
    \/ r.type \notin NoteTypes
    \/ r.data_kind # "dict"
    \/ (r.type = "word" /\ ~(WordFields \subseteq r.keys))
    \/ (r.type = "sentence" /\ ~(SentenceFields \subseteq r.keys))

\* C19: process_item returns None for every malformed response, and an
\* enrichment it does return has no empty required field.
C19_MalformedIsNone ==
    \A k \in 1..Len(unitLog) :
        unitLog[k].op = "process_item" =>
            /\ Malformed(unitLog[k].response) => unitLog[k].result = None
            /\ unitLog[k].result # None =>
                   \A fld \in DOMAIN unitLog[k].result.data :
                       unitLog[k].result.data[fld] # ""

\* C11: when add_note returns None for the flashcard built from an item, that
\* item's id is not among the ids the pass adds to the Ledger and the item
\* gets no committed delete in this pass; and the loop goes on to the
\* remaining flashcards.
C11_FailedWriteDropsItem ==
    /\ \A k \in 1..Len(addLog) :
           ~addLog[k].ok =>
               /\ \A j \in 1..Len(saveLog) :
                      item_id(addLog[k].note.fields) \notin (saveLog[j].ids \ loaded)
               /\ ~DeleteCalled(addLog[k].note.fields, "committed")
    /\ (pc \in {"save", "delete"} \/ (PassOver /\ ended = "done" /\ ensureLog # <<>>))
           => Len(addLog) = Len(notes_to_add)

FetchCall(k) == k \in 1..Len(unitLog) /\ unitLog[k].op = "fetch_favorites"

\* C21: item_id depends on (text, translation) only: any two FavoriteItems
\* with the same text and translation, at whatever position of whatever
\* fetch_favorites call, carry the same item_id.
C21_ItemIdDeterministic ==
    \A j, k \in 1..Len(unitLog) :
        (FetchCall(j) /\ FetchCall(k)) =>
            \A a \in 1..Len(unitLog[j].items), b \in 1..Len(unitLog[k].items) :
                (/\ unitLog[j].items[a].text = unitLog[k].items[b].text
                 /\ unitLog[j].items[a].translation = unitLog[k].items[b].translation)
                    => unitLog[j].items[a].item_id = unitLog[k].items[b].item_id

\* The same entry was scraped by two calls at two different positions.
C21_Witness ==
    /\ Len(unitLog) >= 2
    /\ FetchCall(1) /\ FetchCall(2)
    /\ Len(unitLog[1].items) >= 1 /\ Len(unitLog[2].items) >= 2
    /\ unitLog[1].items[1].text = unitLog[2].items[2].text
    /\ unitLog[1].items[1].translation = unitLog[2].items[2].translation

\* C22: the FavoriteItem that the commit-writes loop pairs with a flashcard
\* (and marks for the Ledger and for deletion when the write succeeds) is the
\* item the flashcard was built from.
C22_NoteStaysPaired ==
    \A k \in 1..Len(addLog) : addLog[k].item = addLog[k].note.fields

\* The items of the first fetch of this pass whose id load_ids returned.
StaleAtFetch == {f \in Range(fetchLog[1]) : item_id(f) \in loaded}

StaleCalls(f) ==
    {k \in 1..Len(deleteLog) : deleteLog[k].item = f /\ deleteLog[k].phase = "stale"}

\* The load-and-filter step of this pass ran to its end.
FilterOver ==
    /\ fetchLog # <<>>
    /\ pc \notin {"fetch", "stale", "refetch"}
    /\ ended \notin {"aborted_at_fetch", "aborted_at_stale", "aborted_at_refetch"}

NotKnown(item) == item_id(item) \notin loaded

SavedOnceAfterWrites ==
    /\ Len(saveLog) <= 1
    /\ saveLog # <<>> => (notes_to_add # <<>> /\ Len(addLog) = Len(notes_to_add))
    /\ (addLog # <<>> /\ pc \notin {"add", "save"}) => Len(saveLog) = 1

\* The ids of the items whose flashcard the Sink accepted in this pass.
WrittenIds ==
    {item_id(addLog[k].note.fields) : k \in {j \in 1..Len(addLog) : addLog[j].ok}}

\* C24: the Ledger is saved at most once in a pass, never between two Sink
\* writes, exactly once after all writes when the write loop was entered, and
\* the set saved is the loaded set united with the ids whose write succeeded.
C24_SaveOnceWithWrittenIds ==
    /\ SavedOnceAfterWrites
    /\ saveLog # <<>> => saveLog[1].ids = loaded \cup WrittenIds

\* The deck/note-type pairs used by the prepared flashcards.
UsedTargets == {notes_to_add[k].deck : k \in 1..Len(notes_to_add)}

\* C25: in a pass that is not a dry run, once add_note has been called, the
\* target of every flashcard written had been ensured, and
\* ensure_deck_and_model was called for exactly the distinct targets the
\* prepared flashcards use, once each.
C25_EnsureExactlyUsedTargets ==
    (~dry_run /\ addLog # <<>>) =>
        /\ \A k \in 1..Len(addLog) : addLog[k].note.deck \in Range(ensureLog)
        /\ Range(ensureLog) = UsedTargets
        /\ Len(ensureLog) = Cardinality(UsedTargets)

\* No step after the enrichment has run in this pass.
NoLaterStep ==
    /\ ensureLog = <<>> /\ addLog = <<>> /\ saveLog = <<>>
    /\ \A k \in 1..Len(deleteLog) : deleteLog[k].phase # "committed"

\* The enrichment loop of this pass ran to its end.
EnrichOver ==
    /\ FilterOver
    /\ pc \notin {"gemini", "enrich"}
    /\ ended # "aborted_at_gemini"

\* C26: when the last fetch of the pass is empty or holds no new item, the
\* pass returns without any enrichment, ensure, write, save or committed
\* delete; when the enrichment leaves no flashcard, the pass returns without
\* any ensure, write, save or committed delete.
C26_EmptySetsShortCircuit ==
    /\ (FilterOver /\ (fetchLog[Len(fetchLog)] = <<>> \/ new_favorites = <<>>)) =>
           /\ pc = "idle" /\ ended = "done"
           /\ enrichLog = <<>>
           /\ NoLaterStep
    /\ (EnrichOver /\ notes_to_add = <<>>) =>
           /\ pc = "idle" /\ ended = "done"
           /\ NoLaterStep

\* A pass, not a dry run, whose new items all got None from the enrichment,
\* after a stale cleanup.
C26_Witness ==
    /\ PassOver /\ ended = "done" /\ ~dry_run
    /\ Len(fetchLog) = 2
    /\ enrichLog # <<>>
    /\ notes_to_add = <<>>

\* C27: in a pass that follows a pass which ran to its end, and whose
\* load_ids read the Ledger file as it is, an item for which the Sink had
\* already accepted a flashcard is not enriched again and no further
\* flashcard is written for it.
C27_NoSecondFlashcard ==
    (prevEnded = "done" /\ loaded = LedgerIds(file0)) =>
        \A f \in Favorites :
            sink0[f] > 0 =>
                /\ ~Enriched(f)
                /\ \A k \in 1..Len(addLog) : addLog[k].note.fields # f
                /\ sink[f] = sink0[f]

\* C28: a step that terminates the process, inside save_ids included, leaves
\* the Ledger such that load_ids returns the same set as before the step
\* (the set of the last save that completed).
C28_KillKeepsLedger ==
    [][(pc # "idle" /\ pc' = "idle" /\ ended' \in {"killed", "killed_after_save"})
          => LedgerIds(file') = LedgerIds(file)]_vars

\* The items handed to process_item in this pass, in order.
EnrichedItems == [k \in 1..Len(enrichLog) |-> enrichLog[k].item]

\* A pass that is not a dry run enriches every new item.
NormalPassEnrichesAll == (~dry_run /\ EnrichOver) => EnrichedItems = new_favorites

\* The ids a pass that is not a dry run adds to the Ledger when every write
\* succeeds: those of the items paired with the prepared flashcards.
IdsIfAllWritten ==
    {item_id(original_favorite_item(k)) : k \in 1..Len(notes_to_add)}

\* C29: a dry run enriches exactly the items a normal pass would enrich from
\* the same new items (so that, with the same responses, it reports the
\* flashcards the normal pass would write), and the ids it reports are the
\* ids the normal pass would add to the Ledger if every write succeeded.
C29_DryRunIsPreview ==
    (dry_run /\ EnrichOver) =>
        /\ EnrichedItems = new_favorites
        /\ newly_processed_ids = IdsIfAllWritten

\* C30: delete_favorite_item(item) returns True exactly when the entry of
\* that very item was in the Source and is gone after the call, and the call
\* removes no other entry.
C30_DeleteRemovesThatItem ==
    \A k \in 1..Len(unitLog) :
        unitLog[k].op = "delete_favorite_item" =>
            /\ unitLog[k].result <=>
                   (unitLog[k].item \in unitLog[k].before
                        /\ unitLog[k].item \notin unitLog[k].after)
            /\ (unitLog[k].before \ unitLog[k].after) \subseteq {unitLog[k].item}

\* C31: add_note returns the identifier the Sink reported when the write is
\* accepted, and returns None without raising on every failure (timeout,
\* connection or HTTP error, unreadable body, error reported by the Sink), so
\* the call after a failed one is still made.
C31_AddNoteNeverRaises ==
    \A k \in 1..Len(unitLog) :
        unitLog[k].op = "add_note" =>
            /\ ~unitLog[k].raised
            /\ unitLog[k].result =
                   IF unitLog[k].reply.kind = "json" /\ ~unitLog[k].reply.error
                   THEN unitLog[k].reply.result
                   ELSE None

\* A write that failed by an error of the Sink is followed by a write that
\* is accepted and returns its identifier.
C31_Witness ==
    /\ Len(unitLog) = 2
    /\ unitLog[1].op = "add_note" /\ unitLog[1].reply.error
    /\ unitLog[1].result = None
    /\ unitLog[2].op = "add_note" /\ unitLog[2].result = NoteId(2)

\* The fields of a flashcard, as the field mapping of its variant gives them.
MappedFields(e) ==
    IF e.type = "word"
    THEN [tango |-> e.data.english_word, furezu |-> e.data.example_sentence,
          imi |-> e.data.japanese_meaning,
          furezu_no_imi |-> e.data.example_translation,
          tango_onsei |-> "", furezu_onsei |-> ""]
    ELSE [Front |-> e.data.japanese_sentence, Back |-> e.data.english_sentence]

C33_DeleteOnlyKnownIds ==
    \A k \in 1..Len(deleteLog) :
        item_id(deleteLog[k].item) \in processed_item_ids

\* A pass asked the Source to delete a stale item, and then an item it wrote
\* in this pass, whose id was not in the loaded Ledger.
C33_Witness ==
    \E j, k \in 1..Len(deleteLog) :
        /\ deleteLog[j].phase = "stale"
        /\ item_id(deleteLog[j].item) \in loaded
        /\ deleteLog[k].phase = "committed"
        /\ item_id(deleteLog[k].item) \notin loaded

\* The FavoriteItems returned by the fetch_favorites calls made so far.
FetchedItems ==
    UNION { Range(unitLog[k].items) :
              k \in { n \in 1..Len(unitLog) : unitLog[n].op = "fetch_favorites" } }

\* C34: two FavoriteItems with different (text, translation) pairs never
\* have the same item_id (the same hashed key), so the id of one item in the
\* Ledger never makes another item stale, skipped or deleted.
C34_ItemIdInjective ==
    \A x, y \in FetchedItems :
        x.item_id = y.item_id => (x.text = y.text /\ x.translation = y.translation)

====
